---- MODULE Spec2Model ----
(***************************************************************************)
(* A model of the database convenience layer (core.py, query.py,           *)
(* connection.py): the cursor scope, exec_query, the parallel bulk insert, *)
(* the delete-then-insert upsert and the select paths.                     *)
(*                                                                         *)
(* The main process (the caller's thread) is a program counter pc; the     *)
(* tasks of the current multiprocessing pool run concurrently with it.     *)
(* The backend is a table of committed rows; every connection is opened    *)
(* by cnfcn(cn_str) with the drivers' default (no autocommit), so the      *)
(* statements a connection executed take effect at its COMMIT and are      *)
(* dropped when it is closed without one.                                  *)
(***************************************************************************)
EXTENDS Integers, Sequences, FiniteSets, TLC

VARIABLES
    call,       \* the call under way and its arguments (fixed during a run)
    pc,         \* the main process's position
    err,        \* the exception that reached the caller ("" for none)
    njobs,      \* sql_insert's local njobs, after `njobs or mp.cpu_count()`
    rows_per,   \* core: max_rows_per_insert; query: chunksize (after defaulting)
    pos,        \* _insert_list: rows of data consumed by the outer loop
    tasks,      \* tasks submitted to the pool of the current outer chunk
    geti,       \* _insert_list: index of the result p.get() collects next
    pool,       \* [created, closed, live]: pools created / closed and joined
    submitted,  \* history: every sub-chunk handed to apply_async, in order
    queries,    \* exec_query: the statement list being executed
    qi,         \* exec_query: index of the next statement
    cn,         \* the main process's connection [st, pending, log]
    stats,      \* [opened, closed]: connections opened / closed so far
    table,      \* the backend table: committed rows
    result,     \* what sql_select handed to the caller
    failed      \* history: a backend failure (connect, cursor, execute, COMMIT) occurred

vars == <<call, pc, err, njobs, rows_per, pos, tasks, geti, pool, submitted,
          queries, qi, cn, stats, table, result, failed>>

(***************************************************************************)
(* Bounds of the model.                                                    *)
(***************************************************************************)
MaxRows == 4
MaxJobs == 2
MaxRowsPerInsert == 2
MaxQueries == 3
MaxSelectChunk == 2

(***************************************************************************)
(* Python values and SQL literals.  Text is a sequence of one-character    *)
(* strings so that quoting and escaping are computed, not assumed.         *)
(***************************************************************************)
NULLTEXT == <<"N", "U", "L", "L">>

PyNone == [t |-> "none", s |-> <<>>, n |-> 0]
PyStr(s) == [t |-> "str", s |-> s, n |-> 0]
PyNum(n) == [t |-> "num", s |-> <<>>, n |-> n]

\* An SQL literal as it stands in statement text: the keyword NULL, a quoted
\* body, or a bare number.  "unset" is the None that ncol*[None] leaves in a
\* buffer slot nothing was written to.
LitNull == [q |-> "null", s |-> <<>>, n |-> 0]
LitQuoted(s) == [q |-> "quoted", s |-> s, n |-> 0]
LitBare(n) == [q |-> "bare", s |-> <<>>, n |-> n]
LitUnset == [q |-> "unset", s |-> <<>>, n |-> 0]

\* val.replace("'", "''")
RECURSIVE replace(_)
replace(s) ==
    IF s = <<>> THEN <<>>
    ELSE (IF Head(s) = "'" THEN <<"'", "'">> ELSE <<Head(s)>>) \o replace(Tail(s))

addquotes(s) == LitQuoted(s)

_cellval2str(val, doublequotes) ==
    IF val.t = "none" \/ (val.t = "str" /\ val.s = NULLTEXT) THEN LitNull
    ELSE IF val.t = "str"
         THEN addquotes(IF doublequotes THEN replace(val.s) ELSE val.s)
    ELSE LitBare(val.n)

\* "(%s)" % ",".join(x) of a list of cell texts: a TypeError when it holds a None
_list2csv(x) ==
    IF \E j \in 1..Len(x) : x[j] = LitUnset THEN [ok |-> FALSE, cells |-> <<>>]
    ELSE [ok |-> TRUE, cells |-> x]

\* colnames as passed: None, or a sequence of column names
NoColnames == [none |-> TRUE, names |-> <<>>]
Colnames(names) == [none |-> FALSE, names |-> names]

\* _chunks stopping before a last chunk shorter than n
RECURSIVE ChunksDroppingRemainder(_, _)
ChunksDroppingRemainder(xs, n) ==
    IF Len(xs) < n \/ Len(xs) = 0 THEN <<>>
    ELSE <<SubSeq(xs, 1, n)>> \o ChunksDroppingRemainder(SubSeq(xs, n + 1, Len(xs)), n)

\* for i in xrange(0, len(xs), n): yield xs[i:i + n]      (n > 0)
RECURSIVE _chunks(_, _)
_chunks(xs, n) ==
    IF Len(xs) = 0 THEN <<>>
    ELSE IF Len(xs) <= n THEN <<xs>>
    ELSE <<SubSeq(xs, 1, n)>> \o _chunks(SubSeq(xs, n + 1, Len(xs)), n)

\* The inner loop of _list2insertvalues: processed_row[j] = _cellval2str(cell).
\* processed_row is the one buffer of ncol slots shared by all rows; a cell
\* beyond it is an IndexError.
RECURSIVE FillRow(_, _, _)
FillRow(processed_row, row, j) ==
    IF j > Len(row) THEN [ok |-> TRUE, buf |-> processed_row]
    ELSE IF j > Len(processed_row) THEN [ok |-> FALSE, buf |-> processed_row]
    ELSE FillRow([processed_row EXCEPT ![j] = _cellval2str(row[j], TRUE)], row, j + 1)

\* The outer loop of _list2insertvalues, from row i on, with the buffer as the
\* rows before i left it: res[i] = _list2csv(processed_row).
RECURSIVE InsertValuesFrom(_, _, _)
InsertValuesFrom(data, i, processed_row) ==
    IF i > Len(data) THEN [ok |-> TRUE, rows |-> <<>>, err |-> ""]
    ELSE LET f == FillRow(processed_row, data[i], 1)
             c == _list2csv(f.buf)
             rest == InsertValuesFrom(data, i + 1, f.buf)
         IN  IF ~f.ok THEN [ok |-> FALSE, rows |-> <<>>, err |-> "IndexError"]
             ELSE IF ~c.ok THEN [ok |-> FALSE, rows |-> <<>>, err |-> "TypeError"]
             ELSE IF ~rest.ok THEN rest
             ELSE [ok |-> TRUE, rows |-> <<c.cells>> \o rest.rows, err |-> ""]

_list2insertvalues(data) ==
    LET ncol == Len(data[1])
    IN  InsertValuesFrom(data, 1, [j \in 1..ncol |-> LitUnset])

\* Statements: one record shape for both kinds.
NoStatement == [kind |-> "none", cols |-> <<>>, rows |-> <<>>, conds |-> {}]

\* "INSERT INTO %s %s VALUES %s"; ok = FALSE when building it raises:
\* _list2csv(colnames) is a TypeError when colnames is None, and
\* _list2insertvalues may raise
_list2insertstatements(colnames, data) ==
    LET v == _list2insertvalues(data)
    IN  IF colnames.none THEN [ok |-> FALSE, stmt |-> NoStatement, err |-> "TypeError"]
        ELSE IF ~v.ok THEN [ok |-> FALSE, stmt |-> NoStatement, err |-> v.err]
        ELSE [ok |-> TRUE,
              stmt |-> [kind |-> "INSERT", cols |-> colnames.names, rows |-> v.rows,
                        conds |-> {}],
              err |-> ""]

\* "DELETE FROM %s WHERE " + " AND ".join("%s = %s" % (colname, _cellval2str(colval, True)))
_delete_where(cols) ==
    [kind |-> "DELETE", cols |-> <<>>, rows |-> <<>>,
     conds |-> {<<c[1], _cellval2str(c[2], TRUE)>> : c \in cols}]

(***************************************************************************)
(* The backend, as the drivers present it to curs.execute.                 *)
(***************************************************************************)
Columns == <<"k", "v">>

\* '' inside a quoted literal reads back as one quote
RECURSIVE Unquote(_)
Unquote(s) ==
    IF s = <<>> THEN <<>>
    ELSE IF Len(s) >= 2 /\ s[1] = "'" /\ s[2] = "'"
         THEN <<"'">> \o Unquote(SubSeq(s, 3, Len(s)))
    ELSE <<Head(s)>> \o Unquote(Tail(s))

SqlValue(lit) ==
    IF lit.q = "null" THEN PyNone
    ELSE IF lit.q = "quoted" THEN PyStr(Unquote(lit.s))
    ELSE PyNum(lit.n)

ColIndex(c) == CHOOSE j \in 1..Len(Columns) : Columns[j] = c

\* A statement the backend accepts: every VALUES row has one cell per named column.
StatementOk(stmt) ==
    IF stmt.kind = "INSERT"
    THEN /\ \A j \in 1..Len(stmt.cols) : \E k \in 1..Len(Columns) : Columns[k] = stmt.cols[j]
         /\ \A i \in 1..Len(stmt.rows) : Len(stmt.rows[i]) = Len(stmt.cols)
    ELSE stmt.kind = "DELETE"

StoredRow(cols, lits) ==
    [k \in 1..Len(Columns) |->
        IF \E j \in 1..Len(cols) : cols[j] = Columns[k]
        THEN SqlValue(lits[CHOOSE j \in 1..Len(cols) : cols[j] = Columns[k]])
        ELSE PyNone]

\* col = literal: never true of NULL on either side
Matches(row, conds) ==
    \A c \in conds : /\ c[2].q # "null"
                     /\ row[ColIndex(c[1])] # PyNone
                     /\ row[ColIndex(c[1])] = SqlValue(c[2])

RECURSIVE DeleteRows(_, _)
DeleteRows(tbl, conds) ==
    IF tbl = <<>> THEN <<>>
    ELSE (IF Matches(Head(tbl), conds) THEN <<>> ELSE <<Head(tbl)>>)
         \o DeleteRows(Tail(tbl), conds)

ApplyStatement(tbl, stmt) ==
    IF stmt.kind = "INSERT"
    THEN tbl \o [i \in 1..Len(stmt.rows) |-> StoredRow(stmt.cols, stmt.rows[i])]
    ELSE DeleteRows(tbl, stmt.conds)

\* COMMIT: the statements of the transaction take effect, in order
RECURSIVE ApplyAll(_, _)
ApplyAll(tbl, stmts) ==
    IF stmts = <<>> THEN tbl
    ELSE ApplyAll(ApplyStatement(tbl, Head(stmts)), Tail(stmts))

(***************************************************************************)
(* Inputs.                                                                 *)
(***************************************************************************)
Min(a, b) == IF a <= b THEN a ELSE b

\* Row i of the data of a call.  Keys are numbers; under "nulltext" the first
\* row's key is the text NULL.  The other column cycles through a text with a
\* trailing blank, a text holding a quote, and None.
DataKinds == {"plain", "nulltext"}

KeyCell(i, kind) == IF kind = "nulltext" /\ i = 1 THEN PyStr(NULLTEXT) ELSE PyNum(i)

ValCell(i) ==
    IF i % 3 = 1 THEN PyStr(<<"a", " ">>)
    ELSE IF i % 3 = 2 THEN PyStr(<<"O", "'", "B">>)
    ELSE PyNone

Row(i, kind) == <<KeyCell(i, kind), ValCell(i)>>

Rows(n, kind) == [i \in 1..n |-> Row(i, kind)]

\* Row-lists whose rows differ in length: row 1 or row 2 has the key cell only
\* ("short") or a third cell ("long"); the other rows are as above.
RaggedKinds == {"short1", "short2", "long1", "long2"}

RaggedAt(kind) == IF kind \in {"short1", "long1"} THEN 1 ELSE 2

ExtraCell == PyStr(<<"x">>)

RaggedRow(i, kind) ==
    IF i # RaggedAt(kind) THEN Row(i, "plain")
    ELSE IF kind \in {"short1", "short2"} THEN <<KeyCell(i, "plain")>>
    ELSE Row(i, "plain") \o <<ExtraCell>>

RaggedRows(n, kind) == [i \in 1..n |-> RaggedRow(i, kind)]

NoConnection == [st |-> "none", pending |-> <<>>, log |-> <<>>]

Commit == [kind |-> "COMMIT", cols |-> <<>>, rows |-> <<>>, conds |-> {}]

\* The state every call starts from.
Start(c) ==
    /\ call = c
    /\ pc = c.op
    /\ err = ""
    /\ njobs = 0
    /\ rows_per = 0
    /\ pos = 0
    /\ tasks = <<>>
    /\ geti = 0
    /\ pool = [created |-> 0, closed |-> 0]
    /\ submitted = <<>>
    /\ queries = c.queries
    /\ qi = 0
    /\ cn = NoConnection
    /\ stats = [opened |-> 0, closed |-> 0]
    /\ table = c.table0
    /\ result = <<>>
    /\ failed = FALSE

NoCall ==
    [op |-> "", impl |-> "core", data |-> <<>>, kind |-> "plain", dtype |-> "list",
     colnames |-> NoColnames, njobs |-> 0, rpi |-> 0, cpu |-> 1, keycols |-> {},
     queries |-> <<>>, qlist |-> TRUE, chunksize |-> 0, table0 |-> <<>>]

\* sql_insert(tablename, data, colnames, njobs, max_rows_per_insert / chunksize)
\* on an empty table: data is a row-list, a frame or a tuple of rows; njobs and
\* the row budget are 0 when left at their default.
InsertCalls ==
    {[NoCall EXCEPT !.op = "sql_insert", !.impl = impl, !.data = Rows(n, kind),
                    !.kind = kind, !.dtype = f[1], !.colnames = f[2],
                    !.njobs = j[1], !.cpu = j[2], !.rpi = r] :
        impl \in {"core", "query"},
        n \in 0..MaxRows,
        kind \in DataKinds,
        f \in {<<"list", Colnames(Columns)>>, <<"list", NoColnames>>,
               <<"frame", NoColnames>>,
               <<"tuple", Colnames(Columns)>>, <<"tuple", NoColnames>>},
        j \in ({0} \X (1..MaxJobs)) \cup ((1..MaxJobs) \X {1}),
        r \in 0..MaxRowsPerInsert}

\* sql_insert of a row-list with column names whose rows differ in length
RaggedInsertCalls ==
    {[NoCall EXCEPT !.op = "sql_insert", !.impl = impl, !.data = RaggedRows(n, kind),
                    !.kind = kind, !.dtype = "list", !.colnames = Colnames(Columns),
                    !.njobs = j, !.rpi = r] :
        impl \in {"core", "query"},
        n \in 2..MaxRows,
        kind \in RaggedKinds,
        j \in 1..MaxJobs,
        r \in 0..MaxRowsPerInsert}

InitInsert == \E c \in InsertCalls \cup RaggedInsertCalls : Start(c)

(***************************************************************************)
(* sql_insert and _insert_list (main process).                             *)
(***************************************************************************)
Raise(e) == pc' = "raised" /\ err' = e

\* colnames as the workers get it: a frame's own column labels, else the argument
ColnamesOf(c) == IF c.dtype = "frame" THEN Colnames(Columns) ELSE c.colnames

\* the size of an outer chunk: core's max_rows_per_insert*njobs, query's chunksize
OuterSize(impl, r, j) == IF impl = "core" THEN r * j ELSE r

\* the size of the sub-chunks of job_chunk: core's max_rows_per_insert,
\* query's len(chunk)/njobs
SubSize(impl, r, j, job_chunk) == IF impl = "core" THEN r ELSE Len(job_chunk) \div j

\* the isinstance chain with the row-list branch's assert left out
InputAcceptedUnchecked(dtype, colnames) == TRUE

\* the isinstance chain: TRUE when it lets the call through.  The last branch
\* asserts an Exception object, which is truthy.
InputAccepted(dtype, colnames) ==
    IF dtype = "list" THEN ~colnames.none
    ELSE IF dtype = "frame" THEN TRUE
    ELSE TRUE

\* a default row budget that is never 0
DefaultRowsAtLeastOne(nrow, j) == IF j < nrow THEN nrow \div j ELSE 1

\* the default row budget
DefaultRows(nrow, j) == IF j < nrow THEN nrow \div j ELSE nrow

\* sql_insert up to the head of _insert_list's loop
sql_insert ==
    /\ pc = "sql_insert"
    /\ LET j == IF call.njobs # 0 THEN call.njobs ELSE call.cpu
           r == IF call.rpi # 0 THEN call.rpi ELSE DefaultRows(Len(call.data), j)
       IN  /\ njobs' = j
           /\ IF ~InputAccepted(call.dtype, call.colnames)
              THEN Raise("AssertionError") /\ rows_per' = rows_per
              ELSE /\ rows_per' = r
                   /\ IF OuterSize(call.impl, r, j) = 0
                      THEN Raise("ZeroDivisionError")   \* total=len(data)/chunksize
                      ELSE pc' = "_insert_list" /\ err' = err
    /\ UNCHANGED <<call, pos, tasks, geti, pool, submitted, queries, qi, cn, stats,
                   table, result, failed>>

OuterChunks == _chunks(call.data, OuterSize(call.impl, rows_per, njobs))

\* nconn and nexec count the connections the task opened and the INSERT
\* statements it handed to curs.execute
NewTask(k, rows) ==
    [pool |-> k, rows |-> rows, st |-> "queued", cn |-> "none", err |-> "",
     nconn |-> 0, nexec |-> 0]

\* one turn of the outer loop: the next outer chunk gets a pool and its
\* sub-chunks are submitted; or the loop is over and sql_insert returns
_insert_list ==
    /\ pc = "_insert_list"
    /\ IF pos >= Len(OuterChunks)
       THEN /\ pc' = "returned"
            /\ UNCHANGED <<err, pos, tasks, geti, pool, submitted>>
       ELSE LET job_chunk == OuterChunks[pos + 1]
                n == SubSize(call.impl, rows_per, njobs, job_chunk)
            IN  /\ pool' = [pool EXCEPT !.created = @ + 1]
                /\ pos' = pos + 1
                /\ IF n = 0
                   THEN /\ Raise("ValueError")           \* xrange() arg 3 must not be zero
                        /\ UNCHANGED <<tasks, geti, submitted>>
                   ELSE /\ tasks' = [i \in 1..Len(_chunks(job_chunk, n)) |->
                                        NewTask(pool.created + 1, _chunks(job_chunk, n)[i])]
                        /\ submitted' = submitted \o
                              [i \in 1..Len(_chunks(job_chunk, n)) |->
                                  [pool |-> pool.created + 1, rows |-> _chunks(job_chunk, n)[i]]]
                        /\ geti' = 1
                        /\ pc' = "get"
                        /\ err' = err
    /\ UNCHANGED <<call, njobs, rows_per, queries, qi, cn, stats, table, result, failed>>

\* p.get() swallowing the task's exception
ResultNeverRaises(task) == FALSE

\* p.get() re-raises the exception its task ended with
ResultRaises(task) == task.st = "failed"

\* a result that is handed over whether or not its task has ended
FinishedAtOnce(task) == TRUE

\* the task has ended, with a value or an exception: what p.get() blocks for,
\* and what pool.join() waits for in every task after pool.close()
Finished(task) == task.st \in {"done", "failed"}

\* res = [p.get() for p in res]: one result, in submission order
Get ==
    /\ pc = "get"
    /\ geti <= Len(tasks)
    /\ Finished(tasks[geti])
    /\ IF ResultRaises(tasks[geti])
       THEN Raise(tasks[geti].err) /\ geti' = geti
       ELSE /\ geti' = geti + 1
            /\ pc' = IF geti = Len(tasks) THEN "pool_close" ELSE "get"
            /\ err' = err
    /\ UNCHANGED <<call, njobs, rows_per, pos, tasks, pool, submitted, queries, qi, cn,
                   stats, table, result, failed>>

\* pool.close(); pool.join()
PoolCloseJoin ==
    /\ pc = "pool_close"
    /\ \A i \in 1..Len(tasks) : Finished(tasks[i])
    /\ pool' = [pool EXCEPT !.closed = @ + 1]
    /\ pc' = "_insert_list"
    /\ UNCHANGED <<call, err, njobs, rows_per, pos, tasks, geti, submitted, queries, qi,
                   cn, stats, table, result, failed>>

(***************************************************************************)
(* _insert_chunk in a pool process: the statement is built, then           *)
(* _exec_insert_sql runs it inside its own open_cursor scope.              *)
(***************************************************************************)
Running == {i \in 1..Len(tasks) : tasks[i].st \in {"open", "executed"}}

\* the task leaving its open_cursor scope without closing the connection
TaskScopeLeftOpen(t, st, e) == [t EXCEPT !.st = st, !.err = e]

\* the task leaving its open_cursor scope: `finally: cn.close()`
TaskScopeLeft(t, st, e) == [t EXCEPT !.st = st, !.cn = "closed", !.err = e]

TaskStatement(i) == _list2insertstatements(ColnamesOf(call), tasks[i].rows)

\* a free pool process takes the oldest queued task: build the statement,
\* cn = open_persistent_connection(), curs = cn.cursor()
TaskOpen(i, fault) ==
    /\ i \in 1..Len(tasks)
    /\ tasks[i].st = "queued"
    /\ \A k \in 1..(i - 1) : tasks[k].st # "queued"
    /\ Cardinality(Running) < njobs
    /\ IF ~TaskStatement(i).ok
       THEN /\ fault = "none"
            /\ tasks' = [tasks EXCEPT ![i].st = "failed", ![i].err = TaskStatement(i).err]
            /\ UNCHANGED <<stats, failed>>
       ELSE CASE fault = "none" ->
                 /\ tasks' = [tasks EXCEPT ![i].st = "open", ![i].cn = "open",
                                           ![i].nconn = @ + 1]
                 /\ stats' = [stats EXCEPT !.opened = @ + 1]
                 /\ failed' = failed
              [] fault = "connect" ->
                 /\ tasks' = [tasks EXCEPT ![i].st = "failed", ![i].err = "OperationalError"]
                 /\ stats' = stats
                 /\ failed' = TRUE
              [] fault = "cursor" ->
                 \* cn.cursor() is outside the try: nothing closes cn
                 /\ tasks' = [tasks EXCEPT ![i].st = "failed", ![i].cn = "open",
                                           ![i].err = "OperationalError",
                                           ![i].nconn = @ + 1]
                 /\ stats' = [stats EXCEPT !.opened = @ + 1]
                 /\ failed' = TRUE
    /\ UNCHANGED <<call, pc, err, njobs, rows_per, pos, geti, pool, submitted, queries,
                   qi, cn, table, result>>

\* the body of the scope: curs.execute(insert_query); a failure leaves through
\* except/finally, which closes cn
TaskExecute(i, fault) ==
    /\ i \in 1..Len(tasks)
    /\ tasks[i].st = "open"
    /\ LET t == [tasks[i] EXCEPT !.nexec = @ + 1]
       IN  IF ~StatementOk(TaskStatement(i).stmt)
           THEN /\ fault = "none"
                /\ tasks' = [tasks EXCEPT ![i] = TaskScopeLeft(t, "failed", "ProgrammingError")]
                /\ failed' = failed
           ELSE IF fault = "execute"
           THEN /\ tasks' = [tasks EXCEPT ![i] = TaskScopeLeft(t, "failed", "OperationalError")]
                /\ failed' = TRUE
           ELSE /\ fault = "none"
                /\ tasks' = [tasks EXCEPT ![i] = [t EXCEPT !.st = "executed"]]
                /\ failed' = failed
    /\ stats' = IF tasks'[i].st = "failed" THEN [stats EXCEPT !.closed = @ + 1] ELSE stats
    /\ UNCHANGED <<call, pc, err, njobs, rows_per, pos, geti, pool, submitted, queries,
                   qi, cn, table, result>>

\* the exit of the scope: curs.execute("COMMIT") in the else branch, cn.close()
\* in finally; _insert_chunk returns 0
TaskExit(i, fault) ==
    /\ i \in 1..Len(tasks)
    /\ tasks[i].st = "executed"
    /\ IF fault = "commit"
       THEN /\ tasks' = [tasks EXCEPT ![i] = TaskScopeLeft(@, "failed", "OperationalError")]
            /\ table' = table
            /\ failed' = TRUE
       ELSE /\ fault = "none"
            /\ tasks' = [tasks EXCEPT ![i] = TaskScopeLeft(@, "done", "")]
            /\ table' = ApplyStatement(table, TaskStatement(i).stmt)
            /\ failed' = failed
    /\ stats' = [stats EXCEPT !.closed = @ + 1]
    /\ UNCHANGED <<call, pc, err, njobs, rows_per, pos, geti, pool, submitted, queries,
                   qi, cn, result>>

Worker ==
    \E i \in 1..Len(tasks) :
        \/ \E fault \in {"none", "connect", "cursor"} : TaskOpen(i, fault)
        \/ \E fault \in {"none", "execute"} : TaskExecute(i, fault)
        \/ \E fault \in {"none", "commit"} : TaskExit(i, fault)

(***************************************************************************)
(* exec_query: _exec_query inside the open_cursor scope (main process).    *)
(***************************************************************************)
\* open_cursor committing in `finally`, whatever the body did
CursorScopeFailCommitting(c) ==
    [c EXCEPT !.st = "closed", !.pending = <<>>, !.log = Append(@, [kind |-> "COMMIT",
        cols |-> <<>>, rows |-> <<>>, conds |-> {}])]

\* open_cursor left by an exception of the body: `except: raise err`, then
\* `finally: cn.close()`; what was executed and not committed is dropped
CursorScopeFail(c) == [c EXCEPT !.st = "closed", !.pending = <<>>]

\* open_cursor closing without the COMMIT of the else branch
CursorScopeExitUncommitted(c) == [c EXCEPT !.st = "closed", !.pending = <<>>]

\* open_cursor left normally: `else: curs.execute("COMMIT")`, then `finally: cn.close()`
CursorScopeExit(c) == [c EXCEPT !.st = "closed", !.pending = <<>>, !.log = Append(@, Commit)]

\* entering the scope: cn = open_persistent_connection(); curs = cn.cursor()
exec_query(fault) ==
    /\ pc = "exec_query"
    /\ CASE fault = "none" ->
            /\ cn' = [st |-> "open", pending |-> <<>>, log |-> <<>>]
            /\ stats' = [stats EXCEPT !.opened = @ + 1]
            /\ qi' = 1
            /\ pc' = "_exec_query"
            /\ UNCHANGED <<err, failed>>
         [] fault = "connect" ->
            /\ Raise("OperationalError")
            /\ failed' = TRUE
            /\ UNCHANGED <<cn, stats, qi>>
         [] fault = "cursor" ->
            \* cn.cursor() is outside the try: nothing closes cn
            /\ cn' = [st |-> "open", pending |-> <<>>, log |-> <<>>]
            /\ stats' = [stats EXCEPT !.opened = @ + 1]
            /\ Raise("OperationalError")
            /\ failed' = TRUE
            /\ qi' = qi
    /\ UNCHANGED <<call, njobs, rows_per, pos, tasks, geti, pool, submitted, queries,
                   table, result>>

\* for query in queries: curs.execute(query); a failure leaves the scope
\* through except/finally, which closes cn without COMMIT
_exec_query(fault) ==
    /\ pc = "_exec_query"
    /\ qi <= Len(queries)
    /\ IF ~StatementOk(queries[qi])
       THEN /\ fault = "none"
            /\ cn' = CursorScopeFail(cn)
            /\ stats' = [stats EXCEPT !.closed = @ + 1]
            /\ Raise("ProgrammingError")
            /\ UNCHANGED <<qi, failed>>
       ELSE IF fault = "execute"
       THEN /\ cn' = CursorScopeFail(cn)
            /\ stats' = [stats EXCEPT !.closed = @ + 1]
            /\ Raise("OperationalError")
            /\ failed' = TRUE
            /\ qi' = qi
       ELSE /\ fault = "none"
            /\ cn' = [cn EXCEPT !.pending = Append(@, queries[qi]),
                                !.log = Append(@, queries[qi])]
            /\ qi' = qi + 1
            /\ UNCHANGED <<pc, err, stats, failed>>
    /\ UNCHANGED <<call, njobs, rows_per, pos, tasks, geti, pool, submitted, queries,
                   table, result>>

\* leaving the scope normally: curs.execute("COMMIT") in the else branch,
\* cn.close() in finally; exec_query returns None
open_cursor_exit(fault) ==
    /\ pc = "_exec_query"
    /\ qi > Len(queries)
    /\ IF fault = "commit"
       THEN /\ cn' = [cn EXCEPT !.st = "closed", !.pending = <<>>]
            /\ Raise("OperationalError")
            /\ failed' = TRUE
            /\ table' = table
       ELSE /\ fault = "none"
            /\ cn' = CursorScopeExit(cn)
            /\ table' = IF Len(cn'.log) > Len(cn.log) THEN ApplyAll(table, cn.pending)
                         ELSE table
            /\ pc' = IF call.op = "sql_upsert" THEN "sql_insert" ELSE "returned"
            /\ UNCHANGED <<err, failed>>
    /\ stats' = [stats EXCEPT !.closed = @ + 1]
    /\ UNCHANGED <<call, njobs, rows_per, pos, tasks, geti, pool, submitted, queries,
                   qi, result>>

ExecQuery ==
    \/ \E fault \in {"none", "connect", "cursor"} : exec_query(fault)
    \/ \E fault \in {"none", "execute"} : _exec_query(fault)
    \/ \E fault \in {"none", "commit"} : open_cursor_exit(fault)

\* exec_query(queries): statement i inserts row i (i odd) or deletes the row
\* of key i - 1 (i even); a single statement may be passed bare
Query(i) ==
    IF i % 2 = 1
    THEN _list2insertstatements(Colnames(Columns), <<Row(i, "plain")>>).stmt
    ELSE _delete_where({<<"k", KeyCell(i - 1, "plain")>>})

ExecCalls ==
    {[NoCall EXCEPT !.op = "exec_query", !.queries = [i \in 1..n |-> Query(i + d)],
                    !.qlist = l] :
        n \in 0..MaxQueries, d \in 0..1, l \in BOOLEAN}

InitExec ==
    \E c \in {x \in ExecCalls : x.qlist \/ Len(x.queries) = 1} :
        \E n \in 0..MaxRows : Start([c EXCEPT !.table0 = Rows(n, "plain")])

NextExec == ExecQuery

SpecExec == InitExec /\ [][NextExec]_vars

(***************************************************************************)
(* sql_upsert: the deletes through exec_query, then sql_insert.            *)
(***************************************************************************)
\* delete_queries built for the first row only
DeleteQueriesFirstRowOnly(data, keycols) ==
    [i \in 1..Min(1, Len(data)) |->
        _delete_where({<<colname, data[i][ColIndex(colname)]>> : colname \in keycols})]

\* for _, row in data.iterrows(): delete_queries.append(_delete_where(...))
delete_queries(data, keycols) ==
    [i \in 1..Len(data) |->
        _delete_where({<<colname, data[i][ColIndex(colname)]>> : colname \in keycols})]

sql_upsert ==
    /\ pc = "sql_upsert"
    /\ queries' = delete_queries(call.data, call.keycols)
    /\ pc' = "exec_query"
    /\ UNCHANGED <<call, err, njobs, rows_per, pos, tasks, geti, pool, submitted, qi, cn,
                   stats, table, result, failed>>

OldRow(key) == <<key, PyStr(<<"o">>)>>

\* tables the upsert may find: empty; a row of key 2 and a row of a key the
\* data does not have; two rows of key 1; rows equal to rows of the data;
\* and, for data with a key that is the text NULL, a row whose key is that
\* text and one whose key is null
InitialTables(kind) ==
    IF kind = "plain"
    THEN {<<>>,
          <<OldRow(PyNum(2)), OldRow(PyNum(MaxRows + 1))>>,
          <<OldRow(PyNum(1)), OldRow(PyNum(1))>>,
          <<Row(1, "plain"), Row(3, "plain")>>}
    ELSE {<<OldRow(PyNum(2)), OldRow(PyNum(MaxRows + 1))>>,
          <<OldRow(PyStr(NULLTEXT)), OldRow(PyNone)>>}

UpsertCalls ==
    {[NoCall EXCEPT !.op = "sql_upsert", !.impl = impl, !.data = Rows(n, kind),
                    !.kind = kind, !.dtype = "frame", !.keycols = kc,
                    !.njobs = j[1], !.cpu = j[2]] :
        impl \in {"core", "query"},
        n \in 0..MaxRows,
        kind \in DataKinds,
        kc \in {{"k"}, {"k", "v"}},
        j \in ({0} \X {MaxJobs}) \cup ((1..MaxJobs) \X {1})}

InitUpsert ==
    \E c \in UpsertCalls : \E tbl \in InitialTables(c.kind) : Start([c EXCEPT !.table0 = tbl])

(***************************************************************************)
(* sql_select.                                                             *)
(***************************************************************************)
DigitChar == <<"0", "1", "2", "3", "4", "5", "6", "7", "8", "9">>

\* str() of a cell, as astype("str") applies it
RECURSIVE NumText(_)
NumText(n) == IF n < 10 THEN <<DigitChar[n + 1]>> ELSE NumText(n \div 10) \o <<DigitChar[(n % 10) + 1]>>

CellText(cell) ==
    IF cell.t = "none" THEN <<"N", "o", "n", "e">>
    ELSE IF cell.t = "str" THEN cell.s
    ELSE NumText(cell.n)

\* str.strip()
RECURSIVE lstrip(_)
lstrip(s) == IF s # <<>> /\ Head(s) = " " THEN lstrip(Tail(s)) ELSE s

RECURSIVE rstrip(_)
rstrip(s) == IF s # <<>> /\ s[Len(s)] = " " THEN rstrip(SubSeq(s, 1, Len(s) - 1)) ELSE s

strip(s) == rstrip(lstrip(s))

\* Every column whose first cell is unicode text becomes stripped str text.
\* Whether the driver hands text over as unicode is the driver's affair.
_unicode2str(fr, unicode) ==
    IF Len(fr) = 0 THEN fr
    ELSE [i \in 1..Len(fr) |->
            [k \in 1..Len(fr[i]) |->
                IF unicode /\ fr[1][k].t = "str"
                THEN PyStr(strip(CellText(fr[i][k])))
                ELSE fr[i][k]]]

\* _sql_select_chunked ending without closing cn
GeneratorFinallyMissing(c) == c

\* _sql_select_chunked's `finally: cn.close()`
GeneratorFinally(c) == [c EXCEPT !.st = "closed"]

SubTable(rows) == [error |-> FALSE, rows |-> rows]
ErrorValue == [error |-> TRUE, rows |-> <<>>]

\* sql_select with chunksize = 0, as the caller's next call after an insert
\* or an upsert returned, or as the call itself
SelectUnchunkedReady ==
    \/ pc = "sql_select" /\ call.chunksize = 0
    \/ pc = "returned" /\ call.op \in {"sql_insert", "sql_upsert"}

\* with open_connection() as cn: table = pdsql.read_sql(ssql, cn)
_sql_select_unchunked(fault, unicode) ==
    /\ SelectUnchunkedReady
    /\ CASE fault = "none" ->
            /\ result' = <<SubTable(_unicode2str(table, unicode))>>
            /\ stats' = [opened |-> stats.opened + 1, closed |-> stats.closed + 1]
            /\ pc' = "selected"
            /\ UNCHANGED <<err, failed>>
         [] fault = "connect" ->
            /\ unicode
            /\ pc' = "select_raised"
            /\ err' = "OperationalError"
            /\ failed' = TRUE
            /\ UNCHANGED <<result, stats>>
         [] fault = "read" ->
            /\ unicode
            /\ stats' = [opened |-> stats.opened + 1, closed |-> stats.closed + 1]
            /\ pc' = "select_raised"
            /\ err' = "OperationalError"
            /\ failed' = TRUE
            /\ result' = result
    /\ UNCHANGED <<call, njobs, rows_per, pos, tasks, geti, pool, submitted, queries,
                   qi, cn, table>>

\* sql_select with chunksize > 0 returns the generator; nothing has run yet
sql_select ==
    /\ pc = "sql_select"
    /\ call.chunksize # 0
    /\ pc' = "gen_created"
    /\ UNCHANGED <<call, err, njobs, rows_per, pos, tasks, geti, pool, submitted, queries,
                   qi, cn, stats, table, result, failed>>

\* the sub-tables read_sql(ssql, cn, chunksize) has to hand over
SubTables == _chunks(table, call.chunksize)

Produced == Len(SelectSeq(result, LAMBDA e : ~e.error))

\* next() on _sql_select_chunked's generator: it runs to its next yield or to
\* its end
_sql_select_chunked(fault, unicode) ==
    /\ pc \in {"gen_created", "gen_yielded", "gen_yielded_err"}
    /\ IF pc = "gen_created" /\ fault = "connect"
       THEN \* open_persistent_connection() fails, outside the try
            /\ unicode
            /\ Raise("OperationalError")
            /\ failed' = TRUE
            /\ UNCHANGED <<cn, stats, result>>
       ELSE IF pc = "gen_yielded_err"
       THEN \* resumed after `yield err`: finally closes cn, the generator ends
            /\ fault = "none" /\ unicode
            /\ cn' = GeneratorFinally(cn)
            /\ stats' = [stats EXCEPT !.closed = @ + 1]
            /\ pc' = "gen_done"
            /\ UNCHANGED <<err, result, failed>>
       ELSE LET opening == pc = "gen_created"
                opened  == IF opening THEN stats.opened + 1 ELSE stats.opened
            IN  IF fault = "read"
                THEN \* except Exception as err: yield err
                     /\ unicode
                     /\ cn' = [cn EXCEPT !.st = "open"]
                     /\ stats' = [stats EXCEPT !.opened = opened]
                     /\ result' = Append(result, ErrorValue)
                     /\ pc' = "gen_yielded_err"
                     /\ failed' = TRUE
                     /\ err' = err
                ELSE /\ fault = "none"
                     /\ IF Produced < Len(SubTables)
                        THEN \* yield self._unicode2str(subtable)
                             /\ cn' = [cn EXCEPT !.st = "open"]
                             /\ stats' = [stats EXCEPT !.opened = opened]
                             /\ result' = Append(result,
                                   SubTable(_unicode2str(SubTables[Produced + 1], unicode)))
                             /\ pc' = "gen_yielded"
                        ELSE \* the loop is over: finally closes cn
                             /\ unicode
                             /\ cn' = GeneratorFinally(cn)
                             /\ stats' = [opened |-> opened, closed |-> stats.closed + 1]
                             /\ result' = result
                             /\ pc' = "gen_done"
                     /\ UNCHANGED <<err, failed>>
    /\ UNCHANGED <<call, njobs, rows_per, pos, tasks, geti, pool, submitted, queries,
                   qi, table>>

SelectUnchunked ==
    \E fault \in {"none", "connect", "read"}, unicode \in BOOLEAN :
        _sql_select_unchunked(fault, unicode)

SelectChunked ==
    \E fault \in {"none", "connect", "read"}, unicode \in BOOLEAN :
        _sql_select_chunked(fault, unicode)

SelectCalls ==
    {[NoCall EXCEPT !.op = "sql_select", !.chunksize = c] : c \in 0..MaxSelectChunk}

InitSelect ==
    \E c \in SelectCalls : \E n \in 0..MaxRows, kind \in DataKinds :
        Start([c EXCEPT !.table0 = Rows(n, kind)])

NextSelect == sql_select \/ SelectUnchunked \/ SelectChunked

SpecSelect == InitSelect /\ [][NextSelect]_vars

NextInsert == sql_insert \/ _insert_list \/ Get \/ PoolCloseJoin \/ Worker \/ SelectUnchunked

SpecInsert == InitInsert /\ [][NextInsert]_vars

NextUpsert == sql_upsert \/ ExecQuery \/ NextInsert

SpecUpsert == InitUpsert /\ [][NextUpsert]_vars

(***************************************************************************)
(* Properties.                                                             *)
(***************************************************************************)
RECURSIVE Concat(_)
Concat(ss) == IF ss = <<>> THEN <<>> ELSE Head(ss) \o Concat(Tail(ss))

Count(seq, x) == Cardinality({i \in 1..Len(seq) : seq[i] = x})

SameRows(a, b) ==
    /\ Len(a) = Len(b)
    /\ \A i \in 1..Len(a) : Count(a, a[i]) = Count(b, a[i])

Ceil(a, b) == (a + b - 1) \div b

\* sql_insert came back to its caller without an exception
InsertReturned == pc \in {"returned", "selected", "select_raised"}

\* the sub-chunks submitted to pool k, in submission order
SubChunksOf(k) == SelectSeq(submitted, LAMBDA x : x.pool = k)

SubmittedRows(k) == Concat([i \in 1..Len(SubChunksOf(k)) |-> SubChunksOf(k)[i].rows])

AllSubmittedRows == Concat([i \in 1..Len(submitted) |-> submitted[i].rows])

\* the row as the table holds it once its INSERT is committed
Stored(row) == StoredRow(Columns, [j \in 1..Len(row) |-> _cellval2str(row[j], TRUE)])

\* C1: query.py's sql_insert of N >= 1 rows with J >= 1 jobs into the empty
\* table, followed by a select of the whole table, returns exactly the
\* inserted rows, each once, when no backend failure occurs: the insert does
\* not raise, and what the select returns is the data.
C1_QueryInsertRoundTrip ==
    ( /\ call.op = "sql_insert" /\ call.impl = "query"
      /\ call.kind \in DataKinds
      /\ Len(call.data) >= 1
      /\ call.dtype \in {"list", "frame"}
      /\ call.dtype = "list" => ~call.colnames.none
      /\ ~failed )
    => /\ pc # "raised"
       /\ pc = "selected" => SameRows(result[1].rows, call.data)

\* C2: core.py's _insert_list with N >= 1 rows, J >= 1 jobs and R >= 1 rows
\* per insert: every pool gets at most J sub-chunks of at most R rows, at
\* most J*R rows in all, and when the insert has returned exactly
\* ceil(N/(J*R)) pools were created and the sub-chunks submitted, put end to
\* end, are the original rows.
C2_CoreChunking ==
    (call.op = "sql_insert" /\ call.impl = "core" /\ Len(call.data) >= 1)
    => /\ \A k \in 1..pool.created :
            /\ Len(SubChunksOf(k)) <= njobs
            /\ \A i \in 1..Len(SubChunksOf(k)) : Len(SubChunksOf(k)[i].rows) <= rows_per
            /\ Len(SubmittedRows(k)) <= njobs * rows_per
       /\ InsertReturned =>
            /\ pool.created = Ceil(Len(call.data), njobs * rows_per)
            /\ AllSubmittedRows = call.data

\* a core insert of four rows returned after two pools of two sub-chunks each
C2_Witness ==
    /\ call.op = "sql_insert" /\ call.impl = "core"
    /\ pc = "returned"
    /\ Len(call.data) = 4
    /\ pool.created = 2
    /\ Len(SubChunksOf(1)) = 2 /\ Len(SubChunksOf(2)) = 2

\* the key of a row: its cells in the key columns
KeyOf(row) == [c \in call.keycols |-> row[ColIndex(c)]]

DataKeys == {KeyOf(call.data[i]) : i \in 1..Len(call.data)}

KeysDistinctNonNull ==
    /\ \A i, j \in 1..Len(call.data) : i # j => KeyOf(call.data[i]) # KeyOf(call.data[j])
    /\ \A i \in 1..Len(call.data) : \A c \in call.keycols : KeyOf(call.data[i])[c] # PyNone

\* the rows of tbl whose key does not occur in data, in order
OtherRows(tbl) == SelectSeq(tbl, LAMBDA r : KeyOf(r) \notin DataKeys)

\* for every key of data the table holds exactly one row, the data row, and
\* the rows of other keys are as they were
UpsertOutcome ==
    /\ \A i \in 1..Len(call.data) :
          /\ Cardinality({k \in 1..Len(table) : KeyOf(table[k]) = KeyOf(call.data[i])}) = 1
          /\ Count(table, call.data[i]) = 1
    /\ OtherRows(table) = OtherRows(call.table0)

UpsertCompleted == call.op = "sql_upsert" /\ InsertReturned

\* C3 as stated: after sql_upsert has completed without failure on data whose
\* keys are pairwise distinct and non-null, every key of data has exactly one
\* row in the table, equal to the data row, and rows of other keys are unchanged.
C3_UpsertAsStated == (UpsertCompleted /\ KeysDistinctNonNull) => UpsertOutcome

\* the cell comes back from its SQL literal as the value it was
ReadsBack(cell) == SqlValue(_cellval2str(cell, TRUE)) = cell

AllCellsReadBack ==
    \A i \in 1..Len(call.data) : \A j \in 1..Len(call.data[i]) : ReadsBack(call.data[i][j])

\* C3, amended: the same, for data whose every cell is written as a literal
\* that reads back as the same value (so no cell is the text NULL, which is
\* written as SQL NULL).
C3_UpsertReplaces ==
    (UpsertCompleted /\ KeysDistinctNonNull /\ AllCellsReadBack) => UpsertOutcome

\* an upsert of two rows completed on a table that held another row of one
\* of their keys and a row of a key the data does not have
C3_Witness ==
    /\ UpsertCompleted /\ KeysDistinctNonNull /\ AllCellsReadBack
    /\ Len(call.data) = 2
    /\ call.table0 = <<OldRow(PyNum(2)), OldRow(PyNum(MaxRows + 1))>>
    /\ Count(table, OldRow(PyNum(2))) = 0
    /\ Count(table, call.data[2]) = 1

\* C4 as stated, for a tuple of one or more rows: sql_insert given data that
\* is neither a row-list nor a frame fails with an assertion error before any
\* pool is created and before any connection is opened.
C4_OtherDataRejected ==
    ( /\ call.op = "sql_insert" /\ call.dtype = "tuple" /\ Len(call.data) >= 1
      /\ pc # "sql_insert" )
    => /\ pc = "raised" /\ err = "AssertionError"
       /\ pool.created = 0
       /\ stats.opened = 0

\* C5: sql_insert given a row-list and colnames = None raises an
\* AssertionError; no pool was created, no task submitted, no connection
\* opened, and the table is as it was.
C5_RowListNeedsColnames ==
    (call.op = "sql_insert" /\ call.dtype = "list" /\ call.colnames.none /\ pc # "sql_insert")
    => /\ pc = "raised" /\ err = "AssertionError"
       /\ pool.created = 0 /\ submitted = <<>> /\ tasks = <<>>
       /\ stats.opened = 0
       /\ table = call.table0

\* a row-list of three rows without column names was refused
C5_Witness ==
    /\ call.op = "sql_insert" /\ call.dtype = "list" /\ call.colnames.none
    /\ Len(call.data) = 3
    /\ pc = "raised" /\ err = "AssertionError"

\* C6 as stated: when control is back with the caller of an open_cursor
\* scope, a normal exit executed COMMIT exactly once, last, an exit by an
\* exception executed no COMMIT, and in every case, a failure of cursor
\* creation or of COMMIT included, no connection the scope opened is open.
C6_ScopeAlwaysCloses ==
    (call.op = "exec_query" /\ pc \in {"returned", "raised"})
    => /\ pc = "returned" =>
            /\ Count(cn.log, Commit) = 1
            /\ cn.log[Len(cn.log)] = Commit
       /\ pc = "raised" => Count(cn.log, Commit) = 0 /\ err # ""
       /\ cn.st # "open"

\* the statements exec_query executed so far, COMMIT aside
Executed == SelectSeq(cn.log, LAMBDA q : q # Commit)

\* C8: exec_query executes its statements in list order on one connection;
\* when statement i is the first to fail, the statements before it and no
\* other were executed, no COMMIT was issued, the connection is closed and
\* the error is with the caller; when exec_query returns, every statement was
\* executed once, then one COMMIT, and nothing is returned.
C8_ExecQueryInOrder ==
    call.op = "exec_query"
    => /\ stats.opened <= 1
       /\ Len(Executed) <= Len(queries)
       /\ Executed = SubSeq(queries, 1, Len(Executed))
       /\ (pc = "raised" /\ qi \in 1..Len(queries)) =>
            /\ cn.log = SubSeq(queries, 1, qi - 1)
            /\ cn.st = "closed"
            /\ err # ""
            /\ table = call.table0
       /\ pc = "returned" =>
            /\ cn.log = queries \o <<Commit>>
            /\ cn.st = "closed"
            /\ err = "" /\ result = <<>>

\* the second of three statements failed
C8_Witness ==
    /\ call.op = "exec_query"
    /\ Len(queries) = 3
    /\ pc = "raised" /\ qi = 2
    /\ cn.log = <<queries[1]>>

\* the delete phase of the upsert is over: all its deletes and the COMMIT
\* were executed and its connection is closed
DeletePhaseCommitted ==
    /\ cn.st = "closed"
    /\ cn.log = delete_queries(call.data, call.keycols) \o <<Commit>>

\* the table the delete phase leaves
AfterDeletes == ApplyAll(call.table0, delete_queries(call.data, call.keycols))

\* the pool the tasks at hand were submitted to (0 before the first)
TasksPool == IF tasks = <<>> THEN 0 ELSE tasks[1].pool

\* the rows submitted to the pools before that one
RowsOfEarlierPools == Concat([k \in 1..(TasksPool - 1) |-> SubmittedRows(k)])

\* the rows whose insert tasks have committed
CommittedRows ==
    RowsOfEarlierPools \o
    Concat([i \in 1..Len(tasks) |-> IF tasks[i].st = "done" THEN tasks[i].rows ELSE <<>>])

\* C9: in sql_upsert the delete phase is committed and its connection closed
\* before a pool is created or a task submitted; from then on the table is
\* what the deletes left followed by the rows insert tasks have committed,
\* also when the insert has failed: the deleted rows are not put back.
C9_UpsertNotAtomic ==
    call.op = "sql_upsert"
    => /\ (pool.created > 0 \/ submitted # <<>> \/ pc \in {"sql_insert", "_insert_list"})
            => DeletePhaseCommitted
       /\ DeletePhaseCommitted =>
            LET left == AfterDeletes
                committed == CommittedRows
            IN  /\ Len(table) >= Len(left)
                /\ SubSeq(table, 1, Len(left)) = left
                /\ SameRows(SubSeq(table, Len(left) + 1, Len(table)),
                            [i \in 1..Len(committed) |-> Stored(committed[i])])

\* core's insert phase failed and a key that had a row before the call has none
C9_Witness ==
    /\ call.op = "sql_upsert" /\ call.impl = "core"
    /\ pc = "raised" /\ pool.created > 0
    /\ DeletePhaseCommitted
    /\ \E k \in 1..Len(call.table0) :
          /\ KeyOf(call.table0[k]) \in DataKeys
          /\ \A m \in 1..Len(table) : KeyOf(table[m]) # KeyOf(call.table0[k])

TaskFailed == \E i \in 1..Len(tasks) : tasks[i].st = "failed"

\* C10: when a task of outer chunk k has failed, the main process is still
\* collecting chunk k's results or has raised; the pool of chunk k is the last
\* one created and the tasks are its tasks; every row of the chunks before k
\* is in the table, and no row of a failed task is (for data whose rows all
\* have one cell per column).  When the error is with
\* the caller, it is the error of the task whose result was being collected,
\* the results before it having been collected.
C10_WorkerFailureAborts ==
    (call.op = "sql_insert" /\ TaskFailed)
    => /\ pc \in {"get", "raised"}
       /\ pool.created = pos /\ pool.closed = pos - 1 /\ TasksPool = pos
       /\ [i \in 1..Len(tasks) |-> tasks[i].rows] =
             [i \in 1..Len(SubChunksOf(pos)) |-> SubChunksOf(pos)[i].rows]
       /\ call.kind \in DataKinds =>
             /\ \A i \in 1..Len(RowsOfEarlierPools) :
                   Count(table, Stored(RowsOfEarlierPools[i])) = 1
             /\ \A i \in 1..Len(tasks) : tasks[i].st = "failed" =>
                   \A r \in 1..Len(tasks[i].rows) :
                      Count(table, Stored(tasks[i].rows[r])) = 0
       /\ pc = "raised" =>
             /\ geti \in 1..Len(tasks)
             /\ tasks[geti].st = "failed"
             /\ err = tasks[geti].err
             /\ \A j \in 1..(geti - 1) : tasks[j].st = "done"

\* a task of the second outer chunk failed and its error reached the caller
\* with the first chunk's rows committed
C10_Witness ==
    /\ call.op = "sql_insert"
    /\ pc = "raised" /\ TaskFailed
    /\ pos = 2
    /\ Len(RowsOfEarlierPools) >= 2
    /\ \E i \in 1..Len(tasks) : tasks[i].st = "done"

IsLast(i) == i = Len(result)

\* what C7 says of the elements and of the end of the sequence: an error
\* value is the last element, the elements before it are the sub-tables in
\* order, the stream uses one connection, which is open while the generator
\* is suspended at a sub-table and closed when the sequence has ended, and
\* only a failed connect makes next() raise
StreamShape ==
    /\ stats.opened <= 1
    /\ \A i \in 1..Len(result) :
          IF result[i].error THEN IsLast(i)
          ELSE i <= Len(SubTables) /\ Len(result[i].rows) = Len(SubTables[i])
    /\ pc = "gen_yielded" => cn.st = "open" /\ ~result[Len(result)].error
    /\ pc = "gen_yielded_err" => result[Len(result)].error
    /\ pc = "gen_done" =>
          /\ cn.st = "closed"
          /\ err = ""
          /\ Len(result) = Len(SubTables) \/ (result # <<>> /\ result[Len(result)].error)
    /\ pc = "raised" => stats.opened = 0 /\ result = <<>>

\* C7 as stated: the shape above, and the connection is closed once the
\* error element has been produced.
C7_ClosedAtErrorElement ==
    (call.op = "sql_select" /\ call.chunksize > 0)
    => /\ StreamShape
       /\ (result # <<>> /\ result[Len(result)].error) => cn.st = "closed"

\* C7, amended: the shape above; when the error element has been handed over
\* the connection is still open, and it is closed when the consumer asks for
\* the element after it and the sequence ends.
C7_ChunkedSelectStream ==
    (call.op = "sql_select" /\ call.chunksize > 0)
    => /\ StreamShape
       /\ pc = "gen_yielded_err" => cn.st = "open"

\* two sub-tables, then the error value, then the end of the sequence
C7_Witness ==
    /\ call.op = "sql_select" /\ call.chunksize > 0
    /\ pc = "gen_done"
    /\ Len(result) = 3 /\ result[3].error
    /\ cn.st = "closed"

\* C11: _insert_list takes the outer chunks strictly one after another: a
\* step that creates a pool or submits a task is taken only when every pool
\* created so far has been closed and joined and every task submitted so far
\* has completed; it creates exactly one pool, and what it submits goes to
\* that pool.  (Within one outer chunk the tasks commit in any order: see the
\* witness.)
C11_OuterChunksSequential ==
    [][(pool'.created # pool.created \/ submitted' # submitted)
       => /\ pool.closed = pool.created
          /\ \A i \in 1..Len(tasks) : tasks[i].st = "done"
          /\ pool'.created = pool.created + 1
          /\ Len(submitted') >= Len(submitted)
          /\ SubSeq(submitted', 1, Len(submitted)) = submitted
          /\ \A i \in (Len(submitted) + 1)..Len(submitted') :
                submitted'[i].pool = pool'.created]_vars

\* in the second outer chunk, after the first one's pool was closed and
\* joined, the second task has committed while the first has not
C11_Witness ==
    /\ call.op = "sql_insert" /\ call.kind \in DataKinds
    /\ pool.created = 2 /\ pool.closed = 1
    /\ Len(tasks) >= 2
    /\ tasks[1].pool = 2
    /\ tasks[2].st = "done"
    /\ tasks[1].st \in {"open", "executed"}
    /\ Count(table, Stored(tasks[2].rows[1])) = 1
    /\ Count(table, Stored(tasks[1].rows[1])) = 0

\* the cells of a row as _cellval2str writes them
OwnCells(row) == [j \in 1..Len(row) |-> _cellval2str(row[j], TRUE)]

\* a row the table may hold when only rows of the data were inserted
FromData(t) ==
    \E i \in 1..Len(call.data) :
        Len(call.data[i]) = Len(Columns) /\ t = Stored(call.data[i])

\* C12: sql_insert of a row-list with a row shorter or longer than the
\* others (and than colnames): the statement of every task that has started
\* is built and carries each row with its own cells only; without a failure
\* of the backend's own, a task fails only with the backend's error at
\* execution; and the table never holds a row that is not a row of the data.
C12_RaggedRowsBackendError ==
    (call.op = "sql_insert" /\ call.kind \in RaggedKinds)
    => /\ \A i \in 1..Len(tasks) : tasks[i].st # "queued" =>
             /\ TaskStatement(i).ok
             /\ TaskStatement(i).stmt.rows =
                   [r \in 1..Len(tasks[i].rows) |-> OwnCells(tasks[i].rows[r])]
       /\ ~failed => \A i \in 1..Len(tasks) :
             tasks[i].st = "failed" => tasks[i].err = "ProgrammingError"
       /\ \A k \in 1..Len(table) : FromData(table[k])

\* the tasks at hand whose connection is open
OpenTasks == {i \in 1..Len(tasks) : tasks[i].cn = "open"}

\* the task failed where nothing closes its connection: cn.cursor() raised
LeakedAtCursor(t) == t.st = "failed" /\ t.cn = "open" /\ t.nconn = 1 /\ t.nexec = 0

\* the task failed before it had a connection: the statement could not be
\* built, or connecting failed
NeverConnected(t) == t.st = "failed" /\ t.cn = "none" /\ t.nconn = 0 /\ t.nexec = 0

ZeroRowsCall ==
    /\ call.op = "sql_insert"
    /\ Len(call.data) = 0
    /\ call.rpi = 0
    /\ \/ call.dtype = "list" /\ ~call.colnames.none
       \/ call.dtype = "frame"

\* C14: sql_insert with zero rows and no explicit row budget, in core.py and
\* in query.py, does not return normally: the derived budget is 0 and the
\* call ends with ZeroDivisionError, with no pool created, no task
\* submitted, no connection opened and the table as it was.
C14_ZeroRowsRaise ==
    ZeroRowsCall
    => /\ pc \in {"sql_insert", "raised"}
       /\ pc = "raised" => err = "ZeroDivisionError" /\ rows_per = 0
       /\ pool.created = 0 /\ pool.closed = 0
       /\ submitted = <<>> /\ tasks = <<>>
       /\ stats.opened = 0
       /\ table = call.table0

\* the call with an empty frame has raised
C14_Witness ==
    /\ ZeroRowsCall /\ call.dtype = "frame"
    /\ pc = "raised" /\ err = "ZeroDivisionError"
    /\ pool.created = 0 /\ stats.opened = 0

====
